---- MODULE Spec2Model ----
(***************************************************************************)
(* Interview Q&A generator: the FastAPI boundary (main.py), the two        *)
(* orchestrators and the response extractor (ai_engine.py) and the resume  *)
(* text extraction (resume_parser.py).                                     *)
(*                                                                         *)
(* Text is a sequence of lexemes.  A lexeme is one character (backtick,    *)
(* bracket, comma, quote, blank, newline, a letter) or a unit no regular   *)
(* expression of the program looks inside: the word "json", a JSON object  *)
(* literal, a JSON number, a block of non-blank resume characters.         *)
(***************************************************************************)
EXTENDS Naturals, Sequences, FiniteSets

(* ------------------------------ bounds -------------------------------- *)
MaxCoreLen == 4
MaxElems == 6
MaxRoleLen == 2
MaxResumeLen == 2

(* ------------------------------ lexemes ------------------------------- *)
TICK == "tick"
JSONWORD == "json"
BLANK == " "
NEWLINE == "\n"
LBRACKET == "["
RBRACKET == "]"
COMMA == ","
QUOTE == "dquote"
PROSE == "x"

\* str.strip() and the regular expression class \s: blank and newline
IsSpace(c) == c \in {BLANK, NEWLINE}

RECURSIVE SeqsUpTo(_, _)
SeqsUpTo(S, n) ==
  IF n = 0 THEN {<<>>}
  ELSE LET prev == SeqsUpTo(S, n - 1)
       IN  prev \cup {Append(s, c) : s \in prev, c \in S}

Drop(t, n) == SubSeq(t, n + 1, Len(t))

(* ------------------------- str.strip() -------------------------------- *)
RECURSIVE LStrip(_)
LStrip(t) ==
  IF t # <<>> /\ IsSpace(Head(t)) THEN LStrip(Tail(t)) ELSE t

RECURSIVE RStrip(_)
RStrip(t) ==
  IF t # <<>> /\ IsSpace(t[Len(t)]) THEN RStrip(SubSeq(t, 1, Len(t) - 1)) ELSE t

Strip(t) == RStrip(LStrip(t))

(* ------------------- extract_json_from_response ----------------------- *)
StartsWithFence(t) ==
  Len(t) >= 3 /\ t[1] = TICK /\ t[2] = TICK /\ t[3] = TICK

StartsWithFenceJson(t) ==
  Len(t) >= 4 /\ StartsWithFence(t) /\ t[4] = JSONWORD

\* re.sub of a fence with the json tag and the blanks after it (line 76):
\* leftmost non-overlapping matches are removed
RECURSIVE SubFenceJson(_)
SubFenceJson(t) ==
  IF t = <<>> THEN <<>>
  ELSE IF StartsWithFenceJson(t) THEN SubFenceJson(LStrip(Drop(t, 4)))
  ELSE <<Head(t)>> \o SubFenceJson(Tail(t))

\* re.sub of a fence and the blanks after it (line 77)
RECURSIVE SubFence(_)
SubFence(t) ==
  IF t = <<>> THEN <<>>
  ELSE IF StartsWithFence(t) THEN SubFence(LStrip(Drop(t, 3)))
  ELSE <<Head(t)>> \o SubFence(Tail(t))

Positions(t, c) == {i \in 1..Len(t) : t[i] = c}

Min(S) == CHOOSE x \in S : \A y \in S : x <= y
Max(S) == CHOOSE x \in S : \A y \in S : x >= y

\* SearchArray returning the whole searched text instead of the match
SearchArray_WholeText(t) ==
  LET opens  == Positions(t, LBRACKET)
      closes == Positions(t, RBRACKET)
  IN  IF opens # {} /\ closes # {} /\ Min(opens) < Max(closes)
      THEN [found |-> TRUE, group |-> t]
      ELSE [found |-> FALSE, group |-> <<>>]

\* SearchArray with a lazy quantifier: up to the first closing bracket
SearchArray_NonGreedy(t) ==
  LET opens  == Positions(t, LBRACKET)
      closes == Positions(t, RBRACKET)
  IN  IF opens # {} /\ closes # {} /\ Min(opens) < Max(closes)
      THEN [found |-> TRUE,
            group |-> SubSeq(t, Min(opens), Min({j \in closes : j > Min(opens)}))]
      ELSE [found |-> FALSE, group |-> <<>>]

\* re.search of an opening bracket, anything, a closing bracket, with DOTALL:
\* from the leftmost opening bracket that has a closing bracket after it to
\* the last closing bracket (greedy, across newlines).  found = FALSE is None.
SearchArray(t) ==
  LET opens  == Positions(t, LBRACKET)
      closes == Positions(t, RBRACKET)
  IN  IF opens # {} /\ closes # {} /\ Min(opens) < Max(closes)
      THEN [found |-> TRUE, group |-> SubSeq(t, Min(opens), Max(closes))]
      ELSE [found |-> FALSE, group |-> <<>>]

\* extract_json_from_response returning the unmatched text without strip()
extract_json_from_response_NoStrip(text) ==
  LET text1 == SubFenceJson(text)
      text2 == SubFence(text1)
      json_match == SearchArray(text2)
  IN  IF json_match.found THEN json_match.group ELSE text2

extract_json_from_response(text) ==
  LET text1 == SubFenceJson(text)
      text2 == SubFence(text1)
      json_match == SearchArray(text2)
  IN  IF json_match.found THEN json_match.group ELSE Strip(text2)

(* --------------------------- JSON values ------------------------------ *)
\* A parsed JSON value as Python sees it: its type, and for a dict its keys,
\* whether every value is a str, and the two fields the program reads.
Value(kind, keys, strs, question, answer, items) ==
  [kind |-> kind, keys |-> keys, strs |-> strs,
   question |-> question, answer |-> answer, items |-> items]

QAKeys == {"question", "answer"}

\* Object literals with both fields: one lexeme per position of the array
QaLex == <<"qa1", "qa2", "qa3", "qa4", "qa5", "qa6", "qa7", "qa8">>
QText == <<"Q1", "Q2", "Q3", "Q4", "Q5", "Q6", "Q7", "Q8">>
AText == <<"A1", "A2", "A3", "A4", "A5", "A6", "A7", "A8">>
\* an object literal holding only a question
QONLY == "q_only"
\* an object literal whose question is a number
QANUM == "qa_num"
\* a number literal
NUMBER == "7"

QaLexemes == {QaLex[i] : i \in 1..Len(QaLex)}
ScalarLexemes == QaLexemes \cup {QONLY, QANUM, NUMBER}

IndexOf(lex) == CHOOSE i \in 1..Len(QaLex) : QaLex[i] = lex

ValueOf(lex) ==
  IF lex \in QaLexemes
  THEN Value("dict", QAKeys, TRUE, <<QText[IndexOf(lex)]>>, AText[IndexOf(lex)], <<>>)
  ELSE IF lex = QONLY THEN Value("dict", {"question"}, TRUE, <<"Q1">>, "", <<>>)
  ELSE IF lex = QANUM THEN Value("dict", QAKeys, FALSE, <<>>, "A1", <<>>)
  ELSE Value("int", {}, FALSE, <<>>, "", <<>>)

StrValue == Value("str", {}, FALSE, <<>>, "", <<>>)
ListValue(items) == Value("list", {}, FALSE, <<>>, "", items)
NoValue == Value("none", {}, FALSE, <<>>, "", <<>>)

ParseFail == [ok |-> FALSE, val |-> NoValue, rest |-> <<>>]
Parsed(val, rest) == [ok |-> TRUE, val |-> val, rest |-> rest]

\* json.loads: a recursive descent over the lexemes.  A string runs from a
\* quote to the next quote and may hold no raw newline (a control character).
RECURSIVE ParseValue(_)
RECURSIVE ParseItems(_, _)
ParseValue(t) ==
  IF t = <<>> THEN ParseFail
  ELSE IF Head(t) \in ScalarLexemes THEN Parsed(ValueOf(Head(t)), Tail(t))
  ELSE IF Head(t) = QUOTE
  THEN LET closing == Positions(Tail(t), QUOTE)
       IN  IF closing = {} THEN ParseFail
           ELSE IF \E i \in 1..(Min(closing) - 1) : Tail(t)[i] = NEWLINE THEN ParseFail
           ELSE Parsed(StrValue, Drop(Tail(t), Min(closing)))
  ELSE IF Head(t) = LBRACKET
  THEN LET inner == LStrip(Tail(t))
       IN  IF inner # <<>> /\ Head(inner) = RBRACKET
           THEN Parsed(ListValue(<<>>), Tail(inner))
           ELSE ParseItems(inner, <<>>)
  ELSE ParseFail

\* ParseItems putting each element before the ones already parsed
ParseItems_Reversed(t, acc) ==
  LET first == ParseValue(t)
      after == LStrip(first.rest)
  IN  IF ~first.ok \/ after = <<>> THEN ParseFail
      ELSE IF Head(after) = RBRACKET
      THEN Parsed(ListValue(<<first.val>> \o acc), Tail(after))
      ELSE IF Head(after) = COMMA
      THEN ParseItems(LStrip(Tail(after)), <<first.val>> \o acc)
      ELSE ParseFail

\* the elements of an array after its opening bracket: value (, value)* ]
ParseItems(t, acc) ==
  LET first == ParseValue(t)
      after == LStrip(first.rest)
  IN  IF ~first.ok \/ after = <<>> THEN ParseFail
      ELSE IF Head(after) = RBRACKET
      THEN Parsed(ListValue(Append(acc, first.val)), Tail(after))
      ELSE IF Head(after) = COMMA
      THEN ParseItems(LStrip(Tail(after)), Append(acc, first.val))
      ELSE ParseFail

\* json.loads(s): blanks around one value, nothing else; ok = FALSE is the
\* JSONDecodeError it raises
json_loads(s) ==
  LET r == ParseValue(LStrip(s))
  IN  IF r.ok /\ LStrip(r.rest) = <<>> THEN [ok |-> TRUE, val |-> r.val]
      ELSE [ok |-> FALSE, val |-> NoValue]

\* isinstance(v, list) and len(v)
IsList(v) == v.kind = "list"

(* ---------------------------- orchestrators --------------------------- *)
ExpectedPairs == 5
HTTP_OK == 200

\* a sentinel pair: a dict with a question and an answer, both str
Sentinel(question, answer) == Value("dict", QAKeys, TRUE, question, answer, <<>>)

API_ERROR == <<"API", "Error">>
INVALID_FORMAT == <<"Invalid", "response", "format">>
ERROR_OCCURRED == <<"Error", "occurred">>

\* the f-string of the status code
StatusAnswer(code) ==
  IF code = 404 THEN "Status code: 404"
  ELSE IF code = 500 THEN "Status code: 500"
  ELSE IF code = 503 THEN "Status code: 503"
  ELSE "Status code: other"

\* what a call or a try block ends in: a returned list, or a raised exception
Return(value) == [exc |-> "none", value |-> value]
Raise(exc) == [exc |-> exc, value |-> <<>>]

\* CheckShape rejecting only the lists that are too short
CheckShape_TooFewOnly(qa_pairs) ==
  IF ~IsList(qa_pairs) \/ Len(qa_pairs.items) < ExpectedPairs
  THEN Return(<<Sentinel(INVALID_FORMAT, "Expected 5 Q&A pairs")>>)
  ELSE Return(qa_pairs.items)

\* lines 104-107 and 125-128: the shape check on the parsed value
CheckShape(qa_pairs) ==
  IF ~IsList(qa_pairs) \/ Len(qa_pairs.items) # ExpectedPairs
  THEN Return(<<Sentinel(INVALID_FORMAT, "Expected 5 Q&A pairs")>>)
  ELSE Return(qa_pairs.items)

\* lines 100-107 and 121-128: strip, extract, parse, check
ParseResponse(text) ==
  LET result_text == Strip(text)
      json_text == extract_json_from_response(result_text)
      qa_pairs == json_loads(json_text)
  IN  IF ~qa_pairs.ok THEN Raise("JSONDecodeError")
      ELSE CheckShape(qa_pairs.val)

\* the except clause of both orchestrators
Except(r) ==
  IF r.exc # "none" THEN Return(<<Sentinel(ERROR_OCCURRED, r.exc)>>) ELSE r

\* The backend's behaviour towards one requests.post:
\*   [type |-> "response", status, envelope, text]  an HTTP response; envelope
\*       is whether the body is JSON with a "response" field, text that field
\*   [type |-> "timeout"]           no answer within the timeout
\*   [type |-> "connection_error"]  the connection failed
OllamaTry(outcome) ==
  IF outcome.type = "timeout" THEN Raise("Timeout")
  ELSE IF outcome.type = "connection_error" THEN Raise("ConnectionError")
  ELSE IF outcome.status # HTTP_OK
  THEN Return(<<Sentinel(API_ERROR, StatusAnswer(outcome.status))>>)
  ELSE IF ~outcome.envelope THEN Raise("KeyError")
  ELSE ParseResponse(outcome.text)

generate_qa_pairs(outcome) == Except(OllamaTry(outcome))

\* The provider's behaviour towards one generate_content:
\*   [type |-> "response", text]   a response whose .text is text
\*   [type |-> "provider_error"]   generate_content or .text raised
GeminiTry(outcome) ==
  IF outcome.type = "provider_error" THEN Raise("ProviderError")
  ELSE ParseResponse(outcome.text)

generate_qa_pairs_from_resume(outcome) == Except(GeminiTry(outcome))

(* ------------------------------ boundary ------------------------------ *)
\* str.lower() of a word of a question
Lower(w) ==
  IF w = "API" THEN "api"
  ELSE IF w = "Error" THEN "error"
  ELSE IF w = "Invalid" THEN "invalid"
  ELSE w

\* "error" in question.lower()
ContainsError(question) == \E i \in 1..Len(question) : Lower(question[i]) = "error"

HttpError(code, detail) ==
  [code |-> code, detail |-> detail, label |-> <<>>, questions_and_answers |-> <<>>,
   total_questions |-> 0, status |-> "error", type |-> "none"]

HttpSuccess(label, qa_pairs, type) ==
  [code |-> HTTP_OK, detail |-> <<>>, label |-> label, questions_and_answers |-> qa_pairs,
   total_questions |-> Len(qa_pairs), status |-> "success", type |-> type]

\* main.py lines 64-86 and 119-141: what the handler answers once the
\* orchestrator has ended in r
Respond(label, r, type, failed) ==
  IF r.exc # "none" THEN HttpError(500, <<"Internal server error occurred">>)
  ELSE IF r.value = <<>> THEN HttpError(500, <<failed>>)
  ELSE IF Len(r.value) = 1
  THEN LET first == r.value[1]
       IN  IF first.kind # "dict" THEN HttpError(500, <<"Internal server error occurred">>)
           ELSE IF "question" \in first.keys /\ ~first.strs
           THEN HttpError(500, <<"Internal server error occurred">>)
           ELSE IF "question" \in first.keys /\ ContainsError(first.question)
           THEN HttpError(500, <<"AI generation failed", first.answer>>)
           ELSE HttpSuccess(label, r.value, type)
  ELSE HttpSuccess(label, r.value, type)

(* --------------------------- request inputs --------------------------- *)
QueryMinLength == 1
QueryMaxLength == 100
MinRoleLength == 2
MinResumeLength == 50

\* a block of 49 non-blank characters of a resume, as one lexeme
BLOCK49 == "w49"
CharLen1(c) == IF c = BLOCK49 THEN 49 ELSE 1

\* len(text) in characters
RECURSIVE CharLen(_)
CharLen(t) == IF t = <<>> THEN 0 ELSE CharLen1(Head(t)) + CharLen(Tail(t))

\* ValidateRole without the check of the minimum length
ValidateRole_NoMinLength(role) ==
  IF CharLen(role) < QueryMinLength \/ CharLen(role) > QueryMaxLength
  THEN HttpError(422, <<"Query length">>)
  ELSE IF Strip(role) = <<>> THEN HttpError(400, <<"Role cannot be empty">>)
  ELSE HttpError(0, <<>>)

\* lines 55-59 of generate_questions, after the Query length limits of lines
\* 46-47: the error answered, or code 0 when the role goes on to generation
ValidateRole(role) ==
  IF CharLen(role) < QueryMinLength \/ CharLen(role) > QueryMaxLength
  THEN HttpError(422, <<"Query length">>)
  ELSE IF Strip(role) = <<>> THEN HttpError(400, <<"Role cannot be empty">>)
  ELSE IF CharLen(Strip(role)) < MinRoleLength
  THEN HttpError(400, <<"Role must be at least 2 characters long">>)
  ELSE HttpError(0, <<>>)

\* A file name is the sequence of the pieces between its dots (what
\* split('.') returns); the empty sequence is a missing or empty name.
LowerExt(e) ==
  IF e = "PDF" THEN "pdf"
  ELSE IF e = "TXT" THEN "txt"
  ELSE IF e = "Docx" THEN "docx"
  ELSE e

\* filename.split('.')[-1].lower()
FileExtension(filename) == LowerExt(filename[Len(filename)])

allowed_extensions == {"pdf", "docx", "txt"}

\* resume_parser.py: every extractor returns the stripped text, or "" when
\* reading the file raises; an unsupported type gives ""
extract_resume_text(filename, content, readable) ==
  IF filename = <<>> THEN <<>>
  ELSE IF FileExtension(filename) \in allowed_extensions
  THEN (IF readable THEN Strip(content) ELSE <<>>)
  ELSE <<>>

\* lines 95-114 of generate_questions_from_resume
ValidateResume(filename, content, readable) ==
  IF filename = <<>> THEN HttpError(400, <<"No file uploaded">>)
  ELSE IF FileExtension(filename) \notin allowed_extensions
  THEN HttpError(400, <<"Unsupported file type">>)
  ELSE LET resume_text == extract_resume_text(filename, content, readable)
       IN  IF resume_text = <<>> \/ CharLen(Strip(resume_text)) < MinResumeLength
           THEN HttpError(400, <<"Resume text is too short or empty">>)
           ELSE HttpError(0, <<>>)

\* IssueCall making the call a second time
IssueCall_Twice(n) == n + 2

\* line 91 and line 119: the one call the orchestrator makes
IssueCall(n) == n + 1

(* ------------------------ the inputs explored ------------------------- *)
RoleAlphabet == {BLANK, PROSE}
Roles == SeqsUpTo(RoleAlphabet, MaxRoleLen)

ResumeAlphabet == {BLANK, PROSE, BLOCK49}
Contents == SeqsUpTo(ResumeAlphabet, MaxResumeLen)
Filenames == {<<>>, <<"cv">>, <<"cv", "pdf">>, <<"cv", "TXT">>, <<"cv", "Docx">>,
              <<"cv", "exe">>, <<"cv", "pdf", "exe">>}

\* response texts: every short text over the characters the extractor
\* looks at, each of them again as the one string of a JSON array, and
\* arrays of object literals, bare, fenced, or with prose around them
Alphabet == {TICK, JSONWORD, BLANK, LBRACKET, RBRACKET, PROSE}
Cores == SeqsUpTo(Alphabet, MaxCoreLen)
StringArray(core) == <<LBRACKET, QUOTE>> \o core \o <<QUOTE, RBRACKET>>

RECURSIVE Join(_)
Join(elems) ==
  IF elems = <<>> THEN <<>>
  ELSE IF Len(elems) = 1 THEN elems
  ELSE <<Head(elems), COMMA>> \o Join(Tail(elems))

ArrayText(elems) == <<LBRACKET>> \o Join(elems) \o <<RBRACKET>>

Good(n) == [i \in 1..n |-> QaLex[i]]
MissingAnswer(n) == [i \in 1..n |-> QONLY]
NonMapping(n) == [i \in 1..n |-> IF i = 1 THEN NUMBER ELSE QaLex[i]]
NonString(n) == [i \in 1..n |-> IF i = n THEN QANUM ELSE QaLex[i]]

\* 5 well-formed pairs in another order, and with a pair repeated
Reordered ==
  {[i \in 1..ExpectedPairs |-> QaLex[ExpectedPairs + 1 - i]],
   <<QaLex[2], QaLex[1], QaLex[2], QaLex[5], QaLex[4]>>}

ElementLists ==
  UNION {{Good(n), MissingAnswer(n), NonMapping(n), NonString(n)} : n \in 0..MaxElems}
    \cup Reordered

FENCE == <<TICK, TICK, TICK>>
\* a fenced code block with the json language tag
Wrap(a) == FENCE \o <<JSONWORD, NEWLINE>> \o a \o <<NEWLINE>> \o FENCE
WrapPlain(a) == FENCE \o <<NEWLINE>> \o a \o <<NEWLINE>> \o FENCE

Envelopes(a) ==
  {a, Wrap(a), WrapPlain(a), <<PROSE, BLANK>> \o a, a \o <<NEWLINE, PROSE>>,
   <<NEWLINE>> \o a \o <<BLANK>>}

StructuredTexts ==
  UNION {Envelopes(ArrayText(e)) : e \in ElementLists}
    \cup Envelopes(<<QaLex[1]>>)

OllamaTexts == Cores \cup {StringArray(c) : c \in Cores} \cup StructuredTexts
GeminiTexts == StructuredTexts \cup {<<>>, <<PROSE>>, StringArray(FENCE)}

OllamaOutcomes ==
  {[type |-> "response", status |-> HTTP_OK, envelope |-> TRUE, text |-> t] : t \in OllamaTexts}
    \cup {[type |-> "response", status |-> HTTP_OK, envelope |-> FALSE, text |-> <<>>]}
    \cup {[type |-> "response", status |-> c, envelope |-> e, text |-> ArrayText(Good(5))] :
            c \in {404, 500, 503}, e \in BOOLEAN}

GeminiOutcomes ==
  {[type |-> "response", status |-> HTTP_OK, envelope |-> TRUE, text |-> t] : t \in GeminiTexts}

Silent(type) == [type |-> type, status |-> 0, envelope |-> FALSE, text |-> <<>>]

(* ------------------------------- state -------------------------------- *)
VARIABLES
  pc,           \* "idle", "calling" (the handler waits for the backend), "done"
  req,          \* the request received
  calls,        \* outbound LLM calls made for the request
  outcome,      \* what the backend did with the call
  result_text,  \* the orchestrator's result_text
  json_text,    \* the orchestrator's json_text
  ret,          \* what the orchestrator ended in
  http          \* the HTTP response of the handler

vars == <<pc, req, calls, outcome, result_text, json_text, ret, http>>

NoRequest == [type |-> "none", role |-> <<>>, filename |-> <<>>, content |-> <<>>, readable |-> FALSE]
NoOutcome == Silent("none")
NoReturn == [exc |-> "pending", value |-> <<>>]
NoHttp == HttpError(0, <<>>)

Init ==
  /\ pc = "idle"
  /\ req = NoRequest
  /\ calls = 0
  /\ outcome = NoOutcome
  /\ result_text = <<>>
  /\ json_text = <<>>
  /\ ret = NoReturn
  /\ http = NoHttp

\* the handler up to the point where it waits for the backend
Receive(r, verdict) ==
  /\ req' = r
  /\ IF verdict.code # 0
     THEN /\ pc' = "done"
          /\ http' = verdict
          /\ calls' = calls
     ELSE /\ pc' = "calling"
          /\ http' = http
          /\ calls' = IssueCall(calls)
  /\ UNCHANGED <<outcome, result_text, json_text, ret>>

\* GET /generate_questions, lines 41-62
generate_questions ==
  /\ pc = "idle"
  /\ \E role \in Roles :
       Receive([type |-> "role", role |-> role, filename |-> <<>>, content |-> <<>>,
                readable |-> FALSE],
               ValidateRole(role))

\* POST /generate_questions_from_resume, lines 88-117
generate_questions_from_resume ==
  /\ pc = "idle"
  /\ \E filename \in Filenames, content \in Contents, readable \in BOOLEAN :
       Receive([type |-> "resume", role |-> <<>>, filename |-> filename,
                content |-> content, readable |-> readable],
               ValidateResume(filename, content, readable))

\* whether the orchestrator gets as far as reading the response text
\* (line 100, line 121)
ReadsText(o) == o.type = "response" /\ o.status = HTTP_OK /\ o.envelope

\* the rest of the orchestrator and of the handler once the backend has acted
Complete(o, r, label, type, failed) ==
  /\ outcome' = o
  /\ result_text' = IF ReadsText(o) THEN Strip(o.text) ELSE <<>>
  /\ json_text' = IF ReadsText(o) THEN extract_json_from_response(Strip(o.text)) ELSE <<>>
  /\ ret' = r
  /\ http' = Respond(label, r, type, failed)
  /\ pc' = "done"
  /\ UNCHANGED <<req, calls>>

RoleComplete(o) ==
  Complete(o, generate_qa_pairs(o), Strip(req.role), "role_based",
           "Failed to generate valid questions")

ResumeComplete(o) ==
  Complete(o, generate_qa_pairs_from_resume(o), req.filename, "resume_based",
           "Failed to generate valid questions from resume")

RoleWaiting == pc = "calling" /\ req.type = "role"
ResumeWaiting == pc = "calling" /\ req.type = "resume"

\* the backend answers the requests.post of line 91
OllamaResponds ==
  /\ RoleWaiting
  /\ \E o \in OllamaOutcomes : RoleComplete(o)

\* timeout=120 of requests.post, line 94
OllamaTimeout ==
  /\ RoleWaiting
  /\ RoleComplete(Silent("timeout"))

OllamaConnectionError ==
  /\ RoleWaiting
  /\ RoleComplete(Silent("connection_error"))

\* the provider answers the generate_content of line 119
GeminiResponds ==
  /\ ResumeWaiting
  /\ \E o \in GeminiOutcomes : ResumeComplete(o)

GeminiRaises ==
  /\ ResumeWaiting
  /\ ResumeComplete(Silent("provider_error"))

Next ==
  \/ generate_questions
  \/ generate_questions_from_resume
  \/ OllamaResponds
  \/ OllamaTimeout
  \/ OllamaConnectionError
  \/ GeminiResponds
  \/ GeminiRaises

Spec == Init /\ [][Next]_vars

\* requests.post is given a timeout, so a pending call of the role path does
\* not stay pending; generate_content is given none
FairSpec == Spec /\ WF_vars(OllamaResponds \/ OllamaTimeout \/ OllamaConnectionError)

(* ============================== claims ================================ *)
Done == pc = "done"
\* the orchestrator was called and has ended
Generated == Done /\ calls > 0
\* the orchestrator read the response text and extracted from it
Extracted == Generated /\ ReadsText(outcome)

SentinelQuestions == {API_ERROR, INVALID_FORMAT, ERROR_OCCURRED}
IsSentinel(value) == Len(value) = 1 /\ value[1].question \in SentinelQuestions

\* the value json.loads gives for the extracted text
ParsedJson == json_loads(json_text)

\* C1: whatever the backend does, both orchestrators return without raising,
\* and what they return has exactly 5 elements or is the 1-element sentinel;
\* a parsed array of another length is never returned as it is.
C1_FiveOrSentinel ==
  Generated =>
    /\ ret.exc = "none"
    /\ Len(ret.value) \in {1, ExpectedPairs}
    /\ (Len(ret.value) = 1 => IsSentinel(ret.value))
    /\ (Len(ret.value) = ExpectedPairs =>
          ParsedJson.ok /\ ret.value = ParsedJson.val.items)

\* a parsed array of 6 elements was answered with the sentinel
C1_Witness ==
  /\ Extracted
  /\ ParsedJson.ok
  /\ IsList(ParsedJson.val)
  /\ Len(ParsedJson.val.items) = 6
  /\ IsSentinel(ret.value)

\* C2: at the HTTP boundary a success body carries exactly 5 pairs and
\* total_questions = 5, and every 1-element sentinel of the orchestrator is
\* answered with an HTTP 500 that has a detail, never with a success body.
C2_SuccessHasFiveAndSentinelIs500 ==
  Generated =>
    /\ (http.status = "success" =>
          Len(http.questions_and_answers) = 5 /\ http.total_questions = 5)
    /\ (Len(ret.value) = 1 => http.code = 500 /\ http.detail # <<>>)

\* a pair as the data model has it: a mapping with both keys and str values
WellFormedPair(v) == v.kind = "dict" /\ QAKeys \subseteq v.keys /\ v.strs

\* C3: every 5-element result consists of mappings that each have a
\* "question" and an "answer" with string values; a 5-element array with a
\* malformed element is answered with the invalid-shape sentinel.
C3_FivePairsWellFormed ==
  (Generated /\ Len(ret.value) = ExpectedPairs) =>
    \A i \in 1..Len(ret.value) : WellFormedPair(ret.value[i])

\* the inputs the boundary must reject
InvalidRole(role) == Strip(role) = <<>> \/ CharLen(Strip(role)) < 2
InvalidFile(filename) ==
  filename = <<>> \/ LowerExt(filename[Len(filename)]) \notin {"pdf", "docx", "txt"}
ShortResume(filename, content, readable) ==
  LET text == extract_resume_text(filename, content, readable)
  IN  text = <<>> \/ CharLen(Strip(text)) < 50
InvalidInput ==
  \/ req.type = "role" /\ InvalidRole(req.role)
  \/ req.type = "resume" /\ InvalidFile(req.filename)
  \/ req.type = "resume" /\ ShortResume(req.filename, req.content, req.readable)

\* C4: a request with an invalid role, file name or resume text ends in an
\* input-validation error and no LLM call is ever made for it.
C4_ValidationPrecedesCall ==
  InvalidInput =>
    /\ Done
    /\ http.code \in {400, 422}
    /\ calls = 0
    /\ ret = NoReturn
    /\ outcome = NoOutcome

\* a readable text file of 49 characters after trimming was rejected
C4_Witness ==
  /\ req.type = "resume"
  /\ ~InvalidFile(req.filename)
  /\ req.readable
  /\ CharLen(Strip(req.content)) = 49
  /\ Done
  /\ http.code = 400

\* C5: on both paths a call the backend never answers is abandoned, and the
\* orchestrator eventually returns: a pending call always ends.
C5_PendingCallEnds == (pc = "calling") ~> (pc = "done")

\* C6: a request that passes validation triggers exactly one LLM call, never
\* repeated, whatever the call ends in.
C6_ExactlyOneCall ==
  /\ calls <= 1
  /\ (req.type # "none" /\ ~InvalidInput) => calls = 1
  /\ Generated => calls = 1

\* the one call timed out and was not made again
C6_Witness == Generated /\ outcome.type = "timeout" /\ calls = 1 /\ IsSentinel(ret.value)

\* a JSON array text: it starts with the bracket and parses as a list
IsJsonArrayText(t) ==
  /\ t # <<>>
  /\ Head(t) = LBRACKET
  /\ t[Len(t)] = RBRACKET
  /\ json_loads(t).ok
  /\ IsList(json_loads(t).val)

\* C7: for a JSON array text A, the extractor applied to A inside a fenced
\* block with the json tag returns what it returns for A alone.
C7_FencedEqualsBare ==
  (Extracted /\ IsJsonArrayText(result_text)) =>
    extract_json_from_response(Wrap(result_text)) = json_text

\* the response was a bare array of 5 pairs and the extractor returned it
C7_Witness ==
  /\ Extracted
  /\ result_text = ArrayText(Good(5))
  /\ json_text = result_text

HasFence(t) == \E i \in 1..Len(t) : StartsWithFence(Drop(t, i - 1))

\* C8 as stated: the extractor returns every bare JSON array unchanged, and
\* applied again to its own output returns the same string.
C8_BareArrayUnchanged ==
  (Extracted /\ IsJsonArrayText(result_text)) =>
    /\ json_text = result_text
    /\ extract_json_from_response(json_text) = json_text

\* C8 amended: the extractor returns a bare JSON array that holds no fence
\* marker unchanged, and for every bare JSON array the extractor applied
\* again to its own output returns the same string.
C8_FenceFreeArrayUnchanged ==
  (Extracted /\ IsJsonArrayText(result_text)) =>
    /\ (~HasFence(result_text) => json_text = result_text)
    /\ extract_json_from_response(json_text) = json_text

\* a bare array whose string holds brackets and backticks, but no fence
C8_Witness ==
  /\ Extracted
  /\ result_text = StringArray(<<TICK, TICK, RBRACKET, LBRACKET>>)
  /\ json_text = result_text

NoBracketPair(t) ==
  ~ \E i, j \in 1..Len(t) : i < j /\ t[i] = LBRACKET /\ t[j] = RBRACKET

\* C9 as stated: with no bracket pair in the response text the extractor
\* returns the trimmed input unchanged, the JSON parse fails, and the
\* orchestrator returns the 1-element sentinel.
C9_NoPairReturnsInput ==
  (Extracted /\ NoBracketPair(result_text)) =>
    /\ json_text = Strip(result_text)
    /\ ~ParsedJson.ok
    /\ IsSentinel(ret.value)

\* C9 amended: with no bracket pair the extractor returns the text left by
\* the removal of the fence markers, trimmed, which is the trimmed input
\* when it holds no fence marker; the orchestrator returns the 1-element
\* sentinel, for a failed parse or for a parsed value that is no list.
C9_NoPairReturnsUnfenced ==
  (Extracted /\ NoBracketPair(result_text)) =>
    /\ json_text = Strip(SubFence(SubFenceJson(result_text)))
    /\ (~HasFence(result_text) => json_text = Strip(result_text))
    /\ IsSentinel(ret.value)
    /\ (~ParsedJson.ok => ret.value[1].question = ERROR_OCCURRED)
    /\ (ParsedJson.ok =>
          ~IsList(ParsedJson.val) /\ ret.value[1].question = INVALID_FORMAT)

\* fenced prose: the extractor returned the prose and the parse failed
C9_Witness ==
  /\ Extracted
  /\ NoBracketPair(result_text)
  /\ HasFence(result_text)
  /\ json_text # result_text
  /\ ~ParsedJson.ok
  /\ IsSentinel(ret.value)

\* the failure kind of the error taxonomy a backend behaviour falls under
FailureKind(o) ==
  IF o.type \in {"timeout", "connection_error"} THEN "TransportFailure"
  ELSE IF o.type = "provider_error" THEN "ProviderError"
  ELSE IF o.status # HTTP_OK THEN "NonSuccessStatus"
  ELSE IF ~o.envelope THEN "UnexpectedError"
  ELSE LET p == json_loads(extract_json_from_response(Strip(o.text)))
       IN  IF ~p.ok THEN "JsonParseError"
           ELSE IF ~IsList(p.val) \/ Len(p.val.items) # 5 THEN "InvalidShape"
           ELSE "none"

\* one behaviour of each failure kind, with the sentinel it is answered with
FailureExamples ==
  {[kind |-> FailureKind(o), question |-> generate_qa_pairs(o).value[1].question] :
     o \in {Silent("timeout"), Silent("connection_error"),
            [type |-> "response", status |-> 503, envelope |-> FALSE, text |-> <<>>],
            [type |-> "response", status |-> HTTP_OK, envelope |-> FALSE, text |-> <<>>],
            [type |-> "response", status |-> HTTP_OK, envelope |-> TRUE, text |-> <<PROSE>>],
            [type |-> "response", status |-> HTTP_OK, envelope |-> TRUE,
             text |-> ArrayText(Good(4))]}}
  \cup {[kind |-> FailureKind(o),
         question |-> generate_qa_pairs_from_resume(o).value[1].question] :
          o \in {Silent("provider_error")}}

\* the kinds the sentinel is to tell apart
ReportedKinds ==
  {"TransportFailure", "NonSuccessStatus", "JsonParseError", "InvalidShape", "ProviderError"}

\* C10: the question of the sentinel identifies the failure kind: no failure
\* of another kind is reported with the question this failure is reported with.
C10_QuestionIdentifiesKind ==
  (Generated /\ FailureKind(outcome) \in ReportedKinds) =>
    \A e \in FailureExamples :
      e.kind # FailureKind(outcome) => e.question # ret.value[1].question

\* the object literals of a text, in the order the text has them
PairsOf(text) == SelectSeq(text, LAMBDA c : c \in QaLexemes)

\* a bare or fenced JSON array of 5 well-formed pairs
IsFivePairArray(text) ==
  /\ Len(PairsOf(text)) = ExpectedPairs
  /\ text \in {ArrayText(PairsOf(text)), Wrap(ArrayText(PairsOf(text))),
               WrapPlain(ArrayText(PairsOf(text)))}

NumRequests == 2
Requests == 1..NumRequests

ConcRoles == {<<>>, <<PROSE>>, <<PROSE, PROSE>>, <<BLANK, PROSE, PROSE>>}
ConcFiles ==
  {[type |-> "resume", role |-> <<>>, filename |-> f, content |-> c, readable |-> TRUE] :
     f \in {<<"cv", "pdf">>, <<"cv", "exe">>},
     c \in {<<BLOCK49>>, <<BLOCK49, PROSE>>}}

ConcTexts ==
  {ArrayText(Good(5)), Wrap(ArrayText(<<QaLex[2], QaLex[1], QaLex[2], QaLex[5], QaLex[4]>>)),
   ArrayText(Good(4)), <<PROSE>>}
ConcOllamaOutcomes ==
  {[type |-> "response", status |-> HTTP_OK, envelope |-> TRUE, text |-> t] : t \in ConcTexts}
    \cup {[type |-> "response", status |-> 503, envelope |-> FALSE, text |-> <<>>],
          Silent("timeout"), Silent("connection_error")}
ConcGeminiOutcomes ==
  {[type |-> "response", status |-> HTTP_OK, envelope |-> TRUE, text |-> t] : t \in ConcTexts}
    \cup {Silent("provider_error")}

\* the connection whose response the handler of r reads: the one of its own
\* requests.post (line 91) or generate_content (line 119) call
ConnectionOf_Shared(r) == 1

ConnectionOf(r) == r

ConcInit ==
  /\ pc = [r \in Requests |-> "idle"]
  /\ req = [r \in Requests |-> NoRequest]
  /\ calls = [r \in Requests |-> 0]
  /\ outcome = [r \in Requests |-> NoOutcome]
  /\ result_text = [r \in Requests |-> <<>>]
  /\ json_text = [r \in Requests |-> <<>>]
  /\ ret = [r \in Requests |-> NoReturn]
  /\ http = [r \in Requests |-> NoHttp]

\* the handler of r up to the point where it waits for the backend
ConcReceive(r, request, verdict) ==
  /\ req' = [req EXCEPT ![r] = request]
  /\ IF verdict.code # 0
     THEN /\ pc' = [pc EXCEPT ![r] = "done"]
          /\ http' = [http EXCEPT ![r] = verdict]
          /\ calls' = calls
     ELSE /\ pc' = [pc EXCEPT ![r] = "calling"]
          /\ http' = http
          /\ calls' = [calls EXCEPT ![r] = IssueCall(calls[r])]
  /\ UNCHANGED <<outcome, result_text, json_text, ret>>

ConcGenerateQuestions ==
  \E r \in Requests :
    /\ pc[r] = "idle"
    /\ \E role \in ConcRoles :
         ConcReceive(r, [type |-> "role", role |-> role, filename |-> <<>>,
                         content |-> <<>>, readable |-> FALSE],
                     ValidateRole(role))

ConcGenerateQuestionsFromResume ==
  \E r \in Requests :
    /\ pc[r] = "idle"
    /\ \E f \in ConcFiles :
         ConcReceive(r, f, ValidateResume(f.filename, f.content, f.readable))

\* the backend acts on the connection of the call of r
ConcBackendActs(r, o) ==
  /\ outcome' = [outcome EXCEPT ![r] = o]
  /\ pc' = [pc EXCEPT ![r] = "replied"]
  /\ UNCHANGED <<req, calls, result_text, json_text, ret, http>>

ConcOllamaActs ==
  \E r \in Requests :
    /\ pc[r] = "calling"
    /\ req[r].type = "role"
    /\ \E o \in ConcOllamaOutcomes : ConcBackendActs(r, o)

ConcGeminiActs ==
  \E r \in Requests :
    /\ pc[r] = "calling"
    /\ req[r].type = "resume"
    /\ \E o \in ConcGeminiOutcomes : ConcBackendActs(r, o)

\* the rest of the orchestrator and of the handler of r, on what its call got
ConcComplete(r, o, result, label, type, failed) ==
  /\ result_text' = [result_text EXCEPT ![r] = IF ReadsText(o) THEN Strip(o.text) ELSE <<>>]
  /\ json_text' = [json_text EXCEPT ![r] =
                     IF ReadsText(o) THEN extract_json_from_response(Strip(o.text)) ELSE <<>>]
  /\ ret' = [ret EXCEPT ![r] = result]
  /\ http' = [http EXCEPT ![r] = Respond(label, result, type, failed)]
  /\ pc' = [pc EXCEPT ![r] = "done"]
  /\ UNCHANGED <<req, calls, outcome>>

ConcRoleReturns ==
  \E r \in Requests :
    /\ pc[r] = "replied"
    /\ req[r].type = "role"
    /\ ConcComplete(r, outcome[ConnectionOf(r)],
                    generate_qa_pairs(outcome[ConnectionOf(r)]),
                    Strip(req[r].role), "role_based",
                    "Failed to generate valid questions")

ConcResumeReturns ==
  \E r \in Requests :
    /\ pc[r] = "replied"
    /\ req[r].type = "resume"
    /\ ConcComplete(r, outcome[ConnectionOf(r)],
                    generate_qa_pairs_from_resume(outcome[ConnectionOf(r)]),
                    req[r].filename, "resume_based",
                    "Failed to generate valid questions from resume")

ConcNext ==
  \/ ConcGenerateQuestions
  \/ ConcGenerateQuestionsFromResume
  \/ ConcOllamaActs
  \/ ConcGeminiActs
  \/ ConcRoleReturns
  \/ ConcResumeReturns

ConcSpec == ConcInit /\ [][ConcNext]_vars

\* everything the handler of r holds
Locals(r) ==
  <<pc[r], req[r], calls[r], outcome[r], result_text[r], json_text[r], ret[r], http[r]>>

\* what the request r alone ends in, given its input and the backend's
\* behaviour towards its own call
AloneResult(r) ==
  IF req[r].type = "role" THEN generate_qa_pairs(outcome[r])
  ELSE generate_qa_pairs_from_resume(outcome[r])

AloneVerdict(r) ==
  IF req[r].type = "role" THEN ValidateRole(req[r].role)
  ELSE ValidateResume(req[r].filename, req[r].content, req[r].readable)

AloneHttp(r) ==
  IF calls[r] = 0 THEN AloneVerdict(r)
  ELSE IF req[r].type = "role"
  THEN Respond(Strip(req[r].role), AloneResult(r), "role_based",
               "Failed to generate valid questions")
  ELSE Respond(req[r].filename, AloneResult(r), "resume_based",
               "Failed to generate valid questions from resume")

\* the result of every finished request is the one its own input and the
\* response to its own call give
OwnResults ==
  \A r \in Requests :
    pc[r] = "done" =>
      /\ http[r] = AloneHttp(r)
      /\ (calls[r] > 0 => ret[r] = AloneResult(r))
      /\ (calls[r] > 0 /\ ReadsText(outcome[r]) =>
            json_text[r] = extract_json_from_response(Strip(outcome[r].text)))

\* a step changes the locals of one request only
OneRequestPerStep ==
  \A r1, r2 \in Requests :
    (r1 # r2 /\ Locals(r1)' # Locals(r1)) => Locals(r2)' = Locals(r2)

====
